---- MODULE Spec2Model ----
(***************************************************************************)
(* A model of src/timeline-filter.js: the page-ready handler that fetches  *)
(* the dataset, the TimelineFilter engine it constructs, and the click     *)
(* handlers of the controls the engine generates.                          *)
(*                                                                         *)
(* JavaScript objects are records; an absent property is an absent record  *)
(* field, so `"group" \in DOMAIN e` is `e.group !== undefined`.  null is   *)
(* the empty function Null.                                                *)
(***************************************************************************)
EXTENDS Integers, Sequences, FiniteSets, TLC

VARIABLES
    fetch,               \* the $.getJSON request: "pending", "done" or "fail"
    console,             \* the lines written by console.log
    engines,             \* the number of TimelineFilter objects constructed
    timelineData,        \* the argument the constructor was called with
    originalData,        \* this.originalData
    currentData,         \* this.currentData
    timeline,            \* this.timeline
    activeGroupFilters,  \* this.activeGroupFilters
    activeEraFilters,    \* this.activeEraFilters
    groupFilters,        \* the children of #group-filters
    eraFilters,          \* the children of #era-filters
    filterStatus,        \* the textContent of #filter-status
    timelineEmbed,       \* what is rendered inside #timeline-embed
    thrown,              \* the exception the last handler ended with, or "none"
    renders,             \* the TL.Timeline constructions of the last handler
    lastOp               \* the handler that ran last

vars == <<fetch, console, engines, timelineData, originalData, currentData, timeline,
          activeGroupFilters, activeEraFilters, groupFilters, eraFilters,
          filterStatus, timelineEmbed, thrown, renders, lastOp>>

-----------------------------------------------------------------------------
(* Bounds and the datasets the model draws from. *)

MaxEvents == 2
MaxEras == 2

Null == << >>

\* the values a record's group may take; "" is a present but empty label
GroupValues == {"", "A", "B"}
\* the values an era's text.headline may take
HeadlineValues == {"", "X", "XY"}

\* UTF-16 code units of the labels, for the default comparison of sort()
CodeUnits(str) ==
    CASE str = ""   -> << >>
      [] str = "A"  -> <<65>>
      [] str = "B"  -> <<66>>
      [] str = "X"  -> <<88>>
      [] str = "XY" -> <<88, 89>>

\* an event in position i: with no group, or with one of GroupValues
EventShapes(i) ==
    {[unique_id |-> i]} \cup {[unique_id |-> i, group |-> g] : g \in GroupValues}

\* an era in position i: with no text object, with a text object that has no
\* headline, or with one of HeadlineValues
EraShapes(i) ==
    {[unique_id |-> i], [unique_id |-> i, text |-> [text |-> "body"]]}
    \cup {[unique_id |-> i, text |-> [headline |-> h]] : h \in HeadlineValues}

EventLists ==
    UNION {{f \in [1..n -> UNION {EventShapes(i) : i \in 1..n}] :
                \A i \in 1..n : f[i] \in EventShapes(i)} : n \in 0..MaxEvents}

EraLists ==
    UNION {{f \in [1..n -> UNION {EraShapes(i) : i \in 1..n}] :
                \A i \in 1..n : f[i] \in EraShapes(i)} : n \in 0..MaxEras}

TitleSlide == [text |-> [headline |-> "Timeline"]]

\* the JSON documents the fetch may deliver: eras is optional
Datasets ==
    {[title |-> TitleSlide, events |-> ev] : ev \in EventLists}
    \cup {[title |-> TitleSlide, events |-> ev, eras |-> er] :
              ev \in EventLists, er \in EraLists}

\* the embedded fallback dataset
sampleTimelineData ==
    [title  |-> TitleSlide,
     events |-> <<[unique_id |-> 1, group |-> "A"], [unique_id |-> 2, group |-> "B"]>>,
     eras   |-> <<[unique_id |-> 1, text |-> [headline |-> "X"]]>>]

-----------------------------------------------------------------------------
(* Helpers for JavaScript built-ins. *)

\* Array.prototype.filter is SelectSeq of Sequences: the elements that pass, in
\* their order.

\* JSON.parse(JSON.stringify(v)) of a dataset: a structural copy
CloneEvent(e) == [k \in DOMAIN e |-> e[k]]
CloneEra(r) ==
    [k \in DOMAIN r |->
        IF k = "text" THEN [j \in DOMAIN r.text |-> r.text[j]] ELSE r[k]]
JsonClone(d) ==
    [k \in DOMAIN d |->
        CASE k = "events" -> [i \in 1..Len(d.events) |-> CloneEvent(d.events[i])]
          [] k = "eras"   -> [i \in 1..Len(d.eras) |-> CloneEra(d.eras[i])]
          [] OTHER        -> d[k]]

\* a < b in the order of sort() without a comparator: by UTF-16 code units,
\* a proper prefix first
RECURSIVE UnitsLess(_, _)
UnitsLess(a, b) ==
    IF Len(b) = 0 THEN FALSE
    ELSE IF Len(a) = 0 THEN TRUE
    ELSE IF Head(a) # Head(b) THEN Head(a) < Head(b)
    ELSE UnitsLess(Tail(a), Tail(b))

StrLess(a, b) == UnitsLess(CodeUnits(a), CodeUnits(b))

\* Set.prototype.add on a Set kept in insertion order
SetAdd(seq, x) ==
    IF \E i \in 1..Len(seq) : seq[i] = x THEN seq ELSE Append(seq, x)

\* insertion of x into a sorted array
RECURSIVE InsertSorted(_, _)
InsertSorted(seq, x) ==
    IF Len(seq) = 0 THEN <<x>>
    ELSE IF StrLess(x, Head(seq)) THEN <<x>> \o seq
    ELSE <<Head(seq)>> \o InsertSorted(Tail(seq), x)

\* Array.prototype.sort() of an array of strings
RECURSIVE ArraySort(_)
ArraySort(seq) ==
    IF Len(seq) = 0 THEN << >>
    ELSE InsertSorted(ArraySort(Tail(seq)), Head(seq))

\* Array.prototype.join
RECURSIVE Join(_, _)
Join(parts, sep) ==
    IF Len(parts) = 0 THEN ""
    ELSE IF Len(parts) = 1 THEN parts[1]
    ELSE parts[1] \o sep \o Join(Tail(parts), sep)

\* the truthiness of a string property that may be absent
Truthy(obj, key) == key \in DOMAIN obj /\ obj[key] # ""

-----------------------------------------------------------------------------
(* The engine.  Every method is an operator from the state before the call *)
(* to the state after it; s holds the fields of `this` and the page's      *)
(* elements.  A method that throws leaves s.thrown set and what it had     *)
(* assigned so far in place.                                               *)

\* getUniqueGroups: the Set filled in event order, then Array.from(..).sort()
RECURSIVE CollectGroups(_, _)
CollectGroups(events, groups) ==
    IF Len(events) = 0 THEN groups
    ELSE CollectGroups(Tail(events),
                       IF Truthy(Head(events), "group")
                       THEN SetAdd(groups, Head(events).group)
                       ELSE groups)

\* getUniqueGroups with the sort() left out
getUniqueGroupsUnsorted(s) == CollectGroups(s.originalData.events, << >>)

getUniqueGroups(s) == ArraySort(CollectGroups(s.originalData.events, << >>))

\* getUniqueEras: guarded against a missing eras list, text object and headline
RECURSIVE CollectEras(_, _)
CollectEras(erasList, eras) ==
    IF Len(erasList) = 0 THEN eras
    ELSE CollectEras(Tail(erasList),
                     IF "text" \in DOMAIN Head(erasList)
                        /\ Truthy(Head(erasList).text, "headline")
                     THEN SetAdd(eras, Head(erasList).text.headline)
                     ELSE eras)

getUniqueEras(s) ==
    ArraySort(IF "eras" \in DOMAIN s.originalData
              THEN CollectEras(s.originalData.eras, << >>)
              ELSE << >>)

\* the buttons generateGroupButtons creates
ShowAllGroupsBtn ==
    [className   |-> {"filter-btn", "show-all"},
     textContent |-> "Show All Groups",
     onclick     |-> [method |-> "clearGroupFilters"]]

GroupBtn(group) ==
    [className   |-> {"filter-btn"},
     textContent |-> group,
     onclick     |-> [method |-> "toggleGroupFilter", arg |-> group]]

ShowAllErasBtn ==
    [className   |-> {"filter-btn", "show-all"},
     textContent |-> "Show All Eras",
     onclick     |-> [method |-> "clearEraFilters"]]

EraBtn(era) ==
    [className   |-> {"filter-btn"},
     textContent |-> era,
     onclick     |-> [method |-> "toggleEraFilter", arg |-> era]]

\* labels.forEach(l => { if (l) ... }): the labels a button is made for
NonEmpty(labels) == SelectSeq(labels, LAMBDA l : l # "")

\* generateGroupButtons reading the era vocabulary
generateGroupButtonsFromEras(s) ==
    LET groups == NonEmpty(getUniqueEras(s))
    IN [s EXCEPT !.groupFilters =
          <<ShowAllGroupsBtn>> \o [i \in 1..Len(groups) |-> GroupBtn(groups[i])]]

generateGroupButtons(s) ==
    LET groups == NonEmpty(getUniqueGroups(s))
    IN [s EXCEPT !.groupFilters =
          <<ShowAllGroupsBtn>> \o [i \in 1..Len(groups) |-> GroupBtn(groups[i])]]

\* generateEraButtons reading the group vocabulary
generateEraButtonsFromGroups(s) ==
    LET eras == NonEmpty(getUniqueGroups(s))
    IN [s EXCEPT !.eraFilters =
          <<ShowAllErasBtn>> \o [i \in 1..Len(eras) |-> EraBtn(eras[i])]]

generateEraButtons(s) ==
    LET eras == NonEmpty(getUniqueEras(s))
    IN [s EXCEPT !.eraFilters =
          <<ShowAllErasBtn>> \o [i \in 1..Len(eras) |-> EraBtn(eras[i])]]

generateFilterButtons(s) == generateEraButtons(generateGroupButtons(s))

\* createTimeline: empty the container if a timeline exists, then construct one
createTimeline(s) ==
    LET s1 == IF s.timeline # Null THEN [s EXCEPT !.timelineEmbed = << >>] ELSE s
    IN [s1 EXCEPT !.timeline = [container |-> "timeline-embed",
                                data |-> s1.currentData],
                  !.timelineEmbed = Append(@, s1.currentData),
                  !.renders = @ + 1]

recreateTimeline(s) == createTimeline(s)

\* one part of the status text: "<filtered>/<total> <noun>"
Fraction(filtered, total, noun) ==
    ToString(filtered) \o "/" \o ToString(total) \o " " \o noun

updateFilterStatus(s) ==
    LET totalEvents    == Len(s.originalData.events)
        filteredEvents == Len(s.currentData.events)
        totalEras      == IF "eras" \in DOMAIN s.originalData
                          THEN Len(s.originalData.eras) ELSE 0
        filteredEras   == IF "eras" \in DOMAIN s.currentData
                          THEN Len(s.currentData.eras) ELSE 0
        parts0 == IF Cardinality(s.activeGroupFilters) > 0
                  THEN <<Fraction(filteredEvents, totalEvents, "events")>>
                  ELSE << >>
        parts  == IF Cardinality(s.activeEraFilters) > 0
                  THEN Append(parts0, Fraction(filteredEras, totalEras, "eras"))
                  ELSE parts0
    IN IF Cardinality(s.activeGroupFilters) = 0
          /\ Cardinality(s.activeEraFilters) = 0
       THEN [s EXCEPT !.filterStatus = "Showing all events"]
       ELSE [s EXCEPT !.filterStatus = "Showing " \o Join(parts, ", ")]

\* applyFilters filtering what the last call left in currentData
StartFromCurrent(s) == s

\* applyFilters, line 138: start from a deep copy of the original
StartFromOriginal(s) == [s EXCEPT !.currentData = JsonClone(s.originalData)]

\* the group filter with currentData sharing its events with originalData
FilterEventsByGroupShared(s) ==
    IF Cardinality(s.activeGroupFilters) > 0
    THEN LET kept == SelectSeq(s.currentData.events,
                               LAMBDA event : "group" \in DOMAIN event
                                              /\ event.group \in s.activeGroupFilters)
         IN [s EXCEPT !.currentData.events = kept, !.originalData.events = kept]
    ELSE s

\* the group filter letting an event with no group through
FilterEventsByGroupKeepUngrouped(s) ==
    IF Cardinality(s.activeGroupFilters) > 0
    THEN [s EXCEPT !.currentData.events =
            SelectSeq(@, LAMBDA event : "group" \notin DOMAIN event
                                         \/ event.group \in s.activeGroupFilters)]
    ELSE s

\* applyFilters, lines 141-145: Set.has(event.group); has(undefined) is false
FilterEventsByGroup(s) ==
    IF Cardinality(s.activeGroupFilters) > 0
    THEN [s EXCEPT !.currentData.events =
            SelectSeq(@, LAMBDA event : "group" \in DOMAIN event
                                         /\ event.group \in s.activeGroupFilters)]
    ELSE s

\* applyFilters, lines 148-152: era.text.headline is read with no guard, so an
\* era whose text is undefined makes the filter callback throw a TypeError and
\* the assignment to currentData.eras never happens
FilterErasByHeadline(s) ==
    IF Cardinality(s.activeEraFilters) > 0 /\ "eras" \in DOMAIN s.currentData
    THEN IF \E i \in 1..Len(s.currentData.eras) :
                "text" \notin DOMAIN s.currentData.eras[i]
         THEN [s EXCEPT !.thrown = "TypeError"]
         ELSE [s EXCEPT !.currentData.eras =
                 SelectSeq(@, LAMBDA era : "headline" \in DOMAIN era.text
                                          /\ era.text.headline \in s.activeEraFilters)]
    ELSE s

applyFilters(s) ==
    LET s1 == FilterErasByHeadline(FilterEventsByGroup(StartFromOriginal(s)))
    IN IF s1.thrown # "none" THEN s1
       ELSE updateFilterStatus(recreateTimeline(s1))

\* button is the position of the clicked element among the container's children
toggleGroupFilter(s, group, button) ==
    applyFilters(
        IF group \in s.activeGroupFilters
        THEN [s EXCEPT !.activeGroupFilters = @ \ {group},
                       !.groupFilters[button].className = @ \ {"active"}]
        ELSE [s EXCEPT !.activeGroupFilters = @ \cup {group},
                       !.groupFilters[button].className = @ \cup {"active"}])

\* toggleEraFilter that only ever adds
toggleEraFilterAddOnly(s, era, button) ==
    applyFilters([s EXCEPT !.activeEraFilters = @ \cup {era},
                           !.eraFilters[button].className = @ \cup {"active"}])

toggleEraFilter(s, era, button) ==
    applyFilters(
        IF era \in s.activeEraFilters
        THEN [s EXCEPT !.activeEraFilters = @ \ {era},
                       !.eraFilters[button].className = @ \ {"active"}]
        ELSE [s EXCEPT !.activeEraFilters = @ \cup {era},
                       !.eraFilters[button].className = @ \cup {"active"}])

\* the clear handlers leaving the buttons' classes alone
DeactivateNone(container) == container

\* querySelectorAll('.filter-btn:not(.show-all)').forEach(classList.remove)
Deactivate(container) ==
    [i \in 1..Len(container) |->
        IF "filter-btn" \in container[i].className
           /\ "show-all" \notin container[i].className
        THEN [container[i] EXCEPT !.className = @ \ {"active"}]
        ELSE container[i]]

\* clearGroupFilters without the recompute
clearGroupFiltersNoApply(s) ==
    [s EXCEPT !.activeGroupFilters = {}, !.groupFilters = Deactivate(@)]

clearGroupFilters(s) ==
    applyFilters([s EXCEPT !.activeGroupFilters = {},
                           !.groupFilters = Deactivate(@)])

\* clearEraFilters emptying both active sets
clearEraFiltersBoth(s) ==
    applyFilters([s EXCEPT !.activeEraFilters = {},
                           !.activeGroupFilters = {},
                           !.eraFilters = Deactivate(@)])

clearEraFilters(s) ==
    applyFilters([s EXCEPT !.activeEraFilters = {},
                           !.eraFilters = Deactivate(@)])

init(s) == updateFilterStatus(createTimeline(generateFilterButtons(s)))

\* new TimelineFilter(data) on the page s
TimelineFilter(s, data) ==
    init([s EXCEPT !.originalData = JsonClone(data),
                   !.currentData = JsonClone(data),
                   !.timeline = Null,
                   !.activeGroupFilters = {},
                   !.activeEraFilters = {}])

-----------------------------------------------------------------------------
(* The state machine: the fetch callbacks and the clicks on the controls.  *)

\* the engine's fields and the page, as the record the methods work on
This ==
    [originalData       |-> originalData,
     currentData        |-> currentData,
     timeline           |-> timeline,
     activeGroupFilters |-> activeGroupFilters,
     activeEraFilters   |-> activeEraFilters,
     groupFilters       |-> groupFilters,
     eraFilters         |-> eraFilters,
     filterStatus       |-> filterStatus,
     timelineEmbed      |-> timelineEmbed,
     thrown             |-> thrown,
     renders            |-> renders]

\* the state a handler starts from
Enter == [This EXCEPT !.thrown = "none", !.renders = 0]

\* the state a handler leaves behind
Leave(s) ==
    /\ originalData' = s.originalData
    /\ currentData' = s.currentData
    /\ timeline' = s.timeline
    /\ activeGroupFilters' = s.activeGroupFilters
    /\ activeEraFilters' = s.activeEraFilters
    /\ groupFilters' = s.groupFilters
    /\ eraFilters' = s.eraFilters
    /\ filterStatus' = s.filterStatus
    /\ timelineEmbed' = s.timelineEmbed
    /\ thrown' = s.thrown
    /\ renders' = s.renders

Init ==
    /\ fetch = "pending"
    /\ console = << >>
    /\ engines = 0
    /\ timelineData = Null
    /\ originalData = Null
    /\ currentData = Null
    /\ timeline = Null
    /\ activeGroupFilters = {}
    /\ activeEraFilters = {}
    /\ groupFilters = << >>
    /\ eraFilters = << >>
    /\ filterStatus = ""
    /\ timelineEmbed = << >>
    /\ thrown = "none"
    /\ renders = 0
    /\ lastOp = "ready"

\* .done(function(data) { new TimelineFilter(data); })
FetchDone ==
    /\ fetch = "pending"
    /\ \E data \in Datasets :
          /\ timelineData' = data
          /\ Leave(TimelineFilter(Enter, data))
    /\ fetch' = "done"
    /\ engines' = engines + 1
    /\ lastOp' = "constructor"
    /\ UNCHANGED console

\* the fail callback logging the notice and constructing nothing
FetchFailLogOnly ==
    /\ fetch = "pending"
    /\ console' = Append(console,
          "Could not load 2025-2026_timeline.json, using sample data")
    /\ fetch' = "fail"
    /\ lastOp' = "constructor"
    /\ UNCHANGED <<engines, timelineData, originalData, currentData, timeline,
                   activeGroupFilters, activeEraFilters, groupFilters, eraFilters,
                   filterStatus, timelineEmbed, thrown, renders>>

\* .fail(function() { console.log(..); new TimelineFilter(sampleTimelineData); })
FetchFail ==
    /\ fetch = "pending"
    /\ console' = Append(console,
          "Could not load 2025-2026_timeline.json, using sample data")
    /\ timelineData' = sampleTimelineData
    /\ Leave(TimelineFilter(Enter, sampleTimelineData))
    /\ fetch' = "fail"
    /\ engines' = engines + 1
    /\ lastOp' = "constructor"

\* btn.onclick = () => this.toggleGroupFilter(group, btn)
ClickGroupButton(button) ==
    /\ groupFilters[button].onclick.method = "toggleGroupFilter"
    /\ Leave(toggleGroupFilter(Enter, groupFilters[button].onclick.arg, button))
    /\ lastOp' = "toggleGroupFilter"
    /\ UNCHANGED <<fetch, console, engines, timelineData>>

\* btn.onclick = () => this.toggleEraFilter(era, btn)
ClickEraButton(button) ==
    /\ eraFilters[button].onclick.method = "toggleEraFilter"
    /\ Leave(toggleEraFilter(Enter, eraFilters[button].onclick.arg, button))
    /\ lastOp' = "toggleEraFilter"
    /\ UNCHANGED <<fetch, console, engines, timelineData>>

\* showAllBtn.onclick = () => this.clearGroupFilters()
ClickShowAllGroups(button) ==
    /\ groupFilters[button].onclick.method = "clearGroupFilters"
    /\ Leave(clearGroupFilters(Enter))
    /\ lastOp' = "clearGroupFilters"
    /\ UNCHANGED <<fetch, console, engines, timelineData>>

\* showAllBtn.onclick = () => this.clearEraFilters()
ClickShowAllEras(button) ==
    /\ eraFilters[button].onclick.method = "clearEraFilters"
    /\ Leave(clearEraFilters(Enter))
    /\ lastOp' = "clearEraFilters"
    /\ UNCHANGED <<fetch, console, engines, timelineData>>

Next ==
    \/ FetchDone
    \/ FetchFail
    \/ \E button \in 1..Len(groupFilters) : ClickGroupButton(button)
    \/ \E button \in 1..Len(groupFilters) : ClickShowAllGroups(button)
    \/ \E button \in 1..Len(eraFilters) : ClickEraButton(button)
    \/ \E button \in 1..Len(eraFilters) : ClickShowAllEras(button)

Spec == Init /\ [][Next]_vars

\* the request always completes: jQuery calls one of the two callbacks
FairSpec == Spec /\ WF_vars(FetchDone \/ FetchFail)

-----------------------------------------------------------------------------
(* Properties.                                                             *)

\* an engine exists
Constructed == fetch # "pending"

\* the event passes a group selection
InGroups(event, groups) == "group" \in DOMAIN event /\ event.group \in groups

\* the era passes a headline selection; an era with no text or no headline
\* matches no label
InHeadlines(era, headlines) ==
    /\ "text" \in DOMAIN era
    /\ "headline" \in DOMAIN era.text
    /\ era.text.headline \in headlines

\* sub is exactly the elements of seq at the positions in keep, in seq's order
IsSubsequenceAt(sub, seq, keep) ==
    /\ Len(sub) = Cardinality(keep)
    /\ \A j \in 1..Len(sub) :
          sub[j] = seq[CHOOSE i \in keep : Cardinality({k \in keep : k <= i}) = j]

\* some era of the dataset has no text object
HasEraWithoutText(d) ==
    "eras" \in DOMAIN d /\ \E i \in 1..Len(d.eras) : "text" \notin DOMAIN d.eras[i]

\* the view that belongs to a dataset and a selection: the eras stay whole
\* when the era filter cannot run to its end
ViewOf(d, groups, headlines) ==
    [k \in DOMAIN d |->
        CASE k = "events" ->
               IF groups = {} THEN d.events
               ELSE SelectSeq(d.events, LAMBDA e : InGroups(e, groups))
          [] k = "eras" ->
               IF headlines = {} \/ HasEraWithoutText(d) THEN d.eras
               ELSE SelectSeq(d.eras, LAMBDA r : InHeadlines(r, headlines))
          [] OTHER -> d[k]]

\* C1: currentData is determined by originalData and the two active sets
\* alone: in every state it is the one view that belongs to them, whatever
\* operations led there.
C1_ViewDeterminedBySelection ==
    Constructed =>
        currentData = ViewOf(originalData, activeGroupFilters, activeEraFilters)

\* a group filter is in force after an era filter was set and cleared again
C1_Witness ==
    /\ lastOp = "clearEraFilters"
    /\ activeGroupFilters # {}
    /\ Len(currentData.events) < Len(originalData.events)
    /\ Len(eraFilters) > 1

\* C2: originalData stays what the constructor stored, the events and eras of
\* the supplied dataset in their order, through every toggle and clear.
C2_OriginalDataUnchanged ==
    Constructed => originalData = timelineData

\* both filters have removed elements from currentData
C2_Witness ==
    /\ Constructed
    /\ "eras" \in DOMAIN originalData
    /\ Len(currentData.events) < Len(originalData.events)
    /\ Len(currentData.eras) < Len(originalData.eras)

\* C3: with a non-empty activeGroupFilters, currentData.events is exactly the
\* events of originalData whose group is in the set, in their original order.
C3_EventsAreSelectedSubsequence ==
    (Constructed /\ activeGroupFilters # {}) =>
        /\ IsSubsequenceAt(currentData.events, originalData.events,
              {i \in 1..Len(originalData.events) :
                   InGroups(originalData.events[i], activeGroupFilters)})
        /\ \A j \in 1..Len(currentData.events) :
              /\ "group" \in DOMAIN currentData.events[j]
              /\ currentData.events[j].group \in activeGroupFilters

\* an event is retained while an event with no group is dropped
C3_Witness ==
    /\ activeGroupFilters # {}
    /\ Len(currentData.events) = 1
    /\ \E i \in 1..Len(originalData.events) :
          "group" \notin DOMAIN originalData.events[i]

\* C4: with no era filter active, or no eras in the dataset, currentData has
\* the eras of originalData; otherwise exactly those whose text.headline is in
\* activeEraFilters, so an era with no headline is dropped.
C4_ErasAreSelectedSubsequence ==
    Constructed =>
        IF "eras" \notin DOMAIN originalData
        THEN "eras" \notin DOMAIN currentData
        ELSE /\ "eras" \in DOMAIN currentData
             /\ IF activeEraFilters = {}
                THEN currentData.eras = originalData.eras
                ELSE IsSubsequenceAt(currentData.eras, originalData.eras,
                        {i \in 1..Len(originalData.eras) :
                             InHeadlines(originalData.eras[i], activeEraFilters)})

\* C4 for the datasets in which every era has a text object
C4_WhenEveryEraHasText ==
    HasEraWithoutText(originalData) \/ C4_ErasAreSelectedSubsequence

\* C5: no handler ends with an exception.
C5_NoHandlerThrows == thrown = "none"

\* C5 for the datasets in which every era has a text object
C5_WhenEveryEraHasText == HasEraWithoutText(originalData) \/ C5_NoHandlerThrows

\* C6: whenever both active sets are empty, currentData has the events and
\* the eras of originalData, the same elements in the same order.
C6_IdentityOnEmptySelection ==
    (Constructed /\ activeGroupFilters = {} /\ activeEraFilters = {}) =>
        /\ currentData.events = originalData.events
        /\ DOMAIN currentData = DOMAIN originalData
        /\ "eras" \in DOMAIN originalData => currentData.eras = originalData.eras

\* the last group label has just been toggled off in a dataset whose events
\* do not all carry it
C6_Witness ==
    /\ lastOp = "toggleGroupFilter"
    /\ activeGroupFilters = {}
    /\ activeEraFilters = {}
    /\ Len(groupFilters) > 1
    /\ \E i \in 1..Len(originalData.events) :
          "group" \notin DOMAIN originalData.events[i]

\* the handler state after one more click, as the next click finds it
Again(s) == [s EXCEPT !.thrown = "none", !.renders = 0]

\* C7: from every state, two toggles of the same label in a row restore the
\* active set and currentData, and one toggle flips the label's membership.
C7_ToggleIsInvolution ==
    Constructed =>
        /\ \A b \in 1..Len(groupFilters) :
              groupFilters[b].onclick.method = "toggleGroupFilter" =>
                 LET g  == groupFilters[b].onclick.arg
                     s1 == toggleGroupFilter(Enter, g, b)
                     s2 == toggleGroupFilter(Again(s1), g, b)
                 IN /\ (g \in s1.activeGroupFilters) # (g \in activeGroupFilters)
                    /\ s1.activeEraFilters = activeEraFilters
                    /\ s2.activeGroupFilters = activeGroupFilters
                    /\ s2.activeEraFilters = activeEraFilters
                    /\ s2.currentData = currentData
        /\ \A b \in 1..Len(eraFilters) :
              eraFilters[b].onclick.method = "toggleEraFilter" =>
                 LET e  == eraFilters[b].onclick.arg
                     s1 == toggleEraFilter(Enter, e, b)
                     s2 == toggleEraFilter(Again(s1), e, b)
                 IN /\ (e \in s1.activeEraFilters) # (e \in activeEraFilters)
                    /\ s1.activeGroupFilters = activeGroupFilters
                    /\ s2.activeEraFilters = activeEraFilters
                    /\ s2.activeGroupFilters = activeGroupFilters
                    /\ s2.currentData = currentData

\* a group toggle and an era toggle each change currentData on the way and
\* two of them bring it back
C7_Witness ==
    /\ lastOp \in {"toggleGroupFilter", "toggleEraFilter"}
    /\ \E b \in 1..Len(groupFilters) :
          /\ groupFilters[b].onclick.method = "toggleGroupFilter"
          /\ groupFilters[b].onclick.arg \in activeGroupFilters
          /\ toggleGroupFilter(Enter, groupFilters[b].onclick.arg, b).currentData
                # currentData
    /\ \E b \in 1..Len(eraFilters) :
          /\ eraFilters[b].onclick.method = "toggleEraFilter"
          /\ eraFilters[b].onclick.arg \in activeEraFilters
          /\ toggleEraFilter(Enter, eraFilters[b].onclick.arg, b).currentData
                # currentData

\* the elements of a sequence
Range(seq) == {seq[i] : i \in 1..Len(seq)}

\* strictly ascending in the code-unit order, so also free of duplicates
StrictlyAscending(seq) ==
    \A i \in 1..Len(seq) : \A j \in 1..Len(seq) :
        i < j => UnitsLess(CodeUnits(seq[i]), CodeUnits(seq[j]))

\* the distinct non-empty group labels of a dataset
GroupLabelsOf(d) ==
    {d.events[i].group :
        i \in {k \in 1..Len(d.events) :
                  "group" \in DOMAIN d.events[k] /\ d.events[k].group # ""}}

\* the distinct non-empty headlines of a dataset
HeadlinesOf(d) ==
    IF "eras" \notin DOMAIN d THEN {}
    ELSE {d.eras[i].text.headline :
             i \in {k \in 1..Len(d.eras) :
                       /\ "text" \in DOMAIN d.eras[k]
                       /\ "headline" \in DOMAIN d.eras[k].text
                       /\ d.eras[k].text.headline # ""}}

\* C8: getUniqueGroups and getUniqueEras list each distinct non-empty label of
\* the dataset exactly once, ascending; a missing or empty label adds nothing
\* and a dataset without eras has no era labels.
C8_VocabularySortedDistinct ==
    Constructed =>
        /\ Range(getUniqueGroups(This)) = GroupLabelsOf(originalData)
        /\ Len(getUniqueGroups(This)) = Cardinality(GroupLabelsOf(originalData))
        /\ StrictlyAscending(getUniqueGroups(This))
        /\ Range(getUniqueEras(This)) = HeadlinesOf(originalData)
        /\ Len(getUniqueEras(This)) = Cardinality(HeadlinesOf(originalData))
        /\ StrictlyAscending(getUniqueEras(This))
        /\ "eras" \notin DOMAIN originalData => getUniqueEras(This) = << >>

\* the groups arrive in descending order and one headline arrives twice
C8_Witness ==
    /\ Constructed
    /\ Len(originalData.events) = 2
    /\ InGroups(originalData.events[1], {"B"})
    /\ InGroups(originalData.events[2], {"A"})
    /\ "eras" \in DOMAIN originalData
    /\ Len(originalData.eras) = 2
    /\ InHeadlines(originalData.eras[1], {"XY"})
    /\ InHeadlines(originalData.eras[2], {"XY"})

\* the status text the two active sets call for
StatusFor(groups, headlines, view, d) ==
    LET events == ToString(Len(view.events)) \o "/"
                      \o ToString(Len(d.events)) \o " events"
        eras   == ToString(IF "eras" \in DOMAIN view THEN Len(view.eras) ELSE 0)
                      \o "/"
                      \o ToString(IF "eras" \in DOMAIN d THEN Len(d.eras) ELSE 0)
                      \o " eras"
    IN CASE groups = {} /\ headlines = {} -> "Showing all events"
         [] groups # {} /\ headlines = {} -> "Showing " \o events
         [] groups = {} /\ headlines # {} -> "Showing " \o eras
         [] OTHER -> "Showing " \o events \o ", " \o eras

\* C9: after init and after every toggle or clear, the status text is
\* "Showing all events" exactly when both active sets are empty, and else
\* names the fractions of the filtered dimensions only, events before eras.
C9_StatusMatchesSelection ==
    Constructed =>
        /\ filterStatus =
              StatusFor(activeGroupFilters, activeEraFilters, currentData, originalData)
        /\ (filterStatus = "Showing all events")
              <=> (activeGroupFilters = {} /\ activeEraFilters = {})

\* C9 for the datasets in which every era has a text object
C9_WhenEveryEraHasText ==
    HasEraWithoutText(originalData) \/ C9_StatusMatchesSelection

\* the toggle controls of a container
ToggleControls(container) ==
    {i \in 1..Len(container) : "show-all" \notin container[i].className}

\* the container holds one clear-all control and one inactive toggle control
\* for each label
HoldsControlsFor(container, labels, clearMethod) ==
    /\ Cardinality({i \in 1..Len(container) :
                       /\ "show-all" \in container[i].className
                       /\ container[i].onclick.method = clearMethod}) = 1
    /\ Len(container) = 1 + Cardinality(labels)
    /\ \A l \in labels :
          Cardinality({i \in ToggleControls(container) :
                          /\ container[i].textContent = l
                          /\ container[i].onclick.arg = l}) = 1
    /\ \A i \in ToggleControls(container) : "active" \notin container[i].className

\* C10: right after construction both active sets are empty, currentData and
\* originalData equal the supplied dataset, the renderer was constructed once
\* with that data, each filter area holds one clear-all control and one
\* inactive toggle control per label, and nothing was thrown; an empty
\* dataset gives no toggle control.
C10_StateAfterConstruction ==
    lastOp = "constructor" =>
        /\ activeGroupFilters = {}
        /\ activeEraFilters = {}
        /\ originalData = timelineData
        /\ currentData = timelineData
        /\ renders = 1
        /\ timeline # Null
        /\ timeline.data = timelineData
        /\ timelineEmbed = <<timelineData>>
        /\ HoldsControlsFor(groupFilters, GroupLabelsOf(timelineData),
                            "clearGroupFilters")
        /\ HoldsControlsFor(eraFilters, HeadlinesOf(timelineData),
                            "clearEraFilters")
        /\ thrown = "none"
        /\ (timelineData.events = << >> /\ "eras" \notin DOMAIN timelineData)
              => (ToggleControls(groupFilters) = {} /\ ToggleControls(eraFilters) = {})

\* an engine just constructed from a dataset with two group labels and one
\* headline, its other era having no text object
C10_Witness ==
    /\ lastOp = "constructor"
    /\ Len(groupFilters) = 3
    /\ Len(eraFilters) = 2
    /\ HasEraWithoutText(originalData)

\* a click handler ran last
AfterClick ==
    lastOp \in {"toggleGroupFilter", "toggleEraFilter",
                "clearGroupFilters", "clearEraFilters"}

\* C11: the fetch resolves once, as done or as fail; done constructs one engine
\* from the fetched data, fail logs the notice and constructs one engine from
\* the sample data; the engines counted are none while the fetch is pending
\* and one ever after, never two, and no toggle or clear runs before the
\* engine exists.
C11_OneEngineAfterLoad ==
    /\ fetch \in {"pending", "done", "fail"}
    /\ engines = IF fetch = "pending" THEN 0 ELSE 1
    /\ fetch = "pending" => (lastOp = "ready" /\ console = << >>)
    /\ fetch = "done" =>
          /\ originalData = timelineData
          /\ currentData # Null
          /\ console = << >>
    /\ fetch = "fail" =>
          /\ timelineData = sampleTimelineData
          /\ originalData = sampleTimelineData
          /\ console = <<"Could not load 2025-2026_timeline.json, using sample data">>
    /\ AfterClick => engines = 1

\* C11, that no execution stays without an engine: under FairSpec every
\* execution comes to have its one engine and keeps it.
C11_EngineEventually == <>[](engines = 1)

\* the fetch failed and a control of the sample data's engine has been clicked
C11_Witness ==
    /\ fetch = "fail"
    /\ engines = 1
    /\ AfterClick
    /\ activeGroupFilters # {}

\* C12: every toggle or clear mutates the set, recomputes currentData,
\* re-creates the renderer and updates the status, in that order and in one
\* piece; so between clicks the renderer holds the data of the current
\* currentData, the container shows that one rendering, the status text was
\* computed from it and the current active sets, and the last click
\* constructed the renderer once.
C12_RenderAndStatusCurrent ==
    Constructed =>
        /\ timeline # Null
        /\ timeline.data = currentData
        /\ timelineEmbed = <<currentData>>
        /\ filterStatus =
              StatusFor(activeGroupFilters, activeEraFilters, currentData, originalData)
        /\ AfterClick => renders = 1

\* C12 for the datasets in which every era has a text object
C12_WhenEveryEraHasText ==
    HasEraWithoutText(originalData) \/ C12_RenderAndStatusCurrent

\* a toggle control carries the class active exactly when its label is active
Mirrors(container, active) ==
    \A i \in ToggleControls(container) :
        ("active" \in container[i].className) <=> (container[i].onclick.arg \in active)

\* the same controls in the same places, whatever their active class
SameControls(c1, c2) ==
    /\ Len(c1) = Len(c2)
    /\ \A i \in 1..Len(c1) :
          /\ c1[i].textContent = c2[i].textContent
          /\ c1[i].onclick = c2[i].onclick
          /\ c1[i].className \ {"active"} = c2[i].className \ {"active"}

\* a step by a group toggle: one control's label changed sides and its class
\* with it, every other control is as it was
GroupToggleStep ==
    \E b \in ToggleControls(groupFilters) :
        /\ (groupFilters[b].onclick.arg \in activeGroupFilters')
              # (groupFilters[b].onclick.arg \in activeGroupFilters)
        /\ groupFilters'[b].className # groupFilters[b].className
        /\ \A i \in 1..Len(groupFilters) : i # b => groupFilters'[i] = groupFilters[i]
        /\ eraFilters' = eraFilters

\* a step by an era toggle, likewise
EraToggleStep ==
    \E b \in ToggleControls(eraFilters) :
        /\ (eraFilters[b].onclick.arg \in activeEraFilters')
              # (eraFilters[b].onclick.arg \in activeEraFilters)
        /\ eraFilters'[b].className # eraFilters[b].className
        /\ \A i \in 1..Len(eraFilters) : i # b => eraFilters'[i] = eraFilters[i]
        /\ groupFilters' = groupFilters

\* no toggle control of the container is active
NoneActive(container) ==
    \A i \in ToggleControls(container) : "active" \notin container[i].className

\* what a click does to the controls
ClickKeepsControls ==
    /\ AfterClick' =>
          /\ SameControls(groupFilters', groupFilters)
          /\ SameControls(eraFilters', eraFilters)
    /\ lastOp' = "toggleGroupFilter" => GroupToggleStep
    /\ lastOp' = "toggleEraFilter" => EraToggleStep
    /\ lastOp' = "clearGroupFilters" =>
          (NoneActive(groupFilters') /\ eraFilters' = eraFilters)
    /\ lastOp' = "clearEraFilters" =>
          (NoneActive(eraFilters') /\ groupFilters' = groupFilters)

\* C13: a toggle control carries the class active exactly when its label is
\* in the active set of its category; a toggle changes the class of the
\* clicked control only, a clear removes active from every toggle control of
\* its own category only, and no click adds or removes a control.
C13_ButtonsMirrorSelection ==
    /\ [](Constructed => (/\ Mirrors(groupFilters, activeGroupFilters)
                          /\ Mirrors(eraFilters, activeEraFilters)))
    /\ [][ClickKeepsControls]_vars

\* after a clear of the groups one era control is active, the other is not,
\* and the group controls are all inactive
C13_Witness ==
    /\ lastOp = "clearGroupFilters"
    /\ Len(groupFilters) = 3
    /\ Len(eraFilters) = 3
    /\ Cardinality(activeEraFilters) = 1
    /\ \E i \in ToggleControls(eraFilters) : "active" \in eraFilters[i].className
    /\ \E i \in ToggleControls(eraFilters) : "active" \notin eraFilters[i].className

\* a step leaves the era side as it is
EraSideUntouched ==
    /\ activeEraFilters' = activeEraFilters
    /\ eraFilters' = eraFilters
    /\ ("eras" \in DOMAIN currentData') <=> ("eras" \in DOMAIN currentData)
    /\ "eras" \in DOMAIN currentData => currentData'.eras = currentData.eras

\* a step leaves the group side as it is
GroupSideUntouched ==
    /\ activeGroupFilters' = activeGroupFilters
    /\ groupFilters' = groupFilters
    /\ currentData'.events = currentData.events

\* C14: toggleGroupFilter and clearGroupFilters leave activeEraFilters, the
\* era controls' classes and currentData.eras unchanged; toggleEraFilter and
\* clearEraFilters leave activeGroupFilters, the group controls' classes and
\* currentData.events unchanged.
C14_DimensionsIndependent ==
    [][/\ lastOp' \in {"toggleGroupFilter", "clearGroupFilters"} => EraSideUntouched
       /\ lastOp' \in {"toggleEraFilter", "clearEraFilters"} => GroupSideUntouched]_vars

\* both dimensions are filtered and both have removed something, so a handler
\* of either has the other's result to preserve
C14_Witness ==
    /\ AfterClick
    /\ activeGroupFilters # {}
    /\ activeEraFilters # {}
    /\ Len(currentData.events) < Len(originalData.events)
    /\ Len(currentData.eras) < Len(originalData.eras)

\* C15: each active set is a subset of its vocabulary, and a non-empty active
\* set never gives an empty result: with a group filter active currentData
\* has an event, with an era filter active it has an era.
C15_ActiveWithinVocabulary ==
    Constructed =>
        /\ activeGroupFilters \subseteq Range(getUniqueGroups(This))
        /\ activeEraFilters \subseteq Range(getUniqueEras(This))
        /\ activeGroupFilters # {} => Len(currentData.events) >= 1
        /\ activeEraFilters # {} =>
              ("eras" \in DOMAIN currentData /\ Len(currentData.eras) >= 1)

\* both filters are active and each has dropped a record and kept one
C15_Witness ==
    /\ AfterClick
    /\ activeGroupFilters # {}
    /\ activeEraFilters # {}
    /\ Len(currentData.events) = 1
    /\ Len(originalData.events) = 2
    /\ Len(currentData.eras) = 1
    /\ Len(originalData.eras) = 2

====
